---- MODULE Spec2Model ----
(***************************************************************************)
(* Model of export_raw_to_sheets.py: one run of main() that fetches a      *)
(* GitHub tree, filters and sorts the blob entries, and publishes them to  *)
(* a Google Sheets worksheet.                                              *)
(*                                                                         *)
(* Strings that the program inspects (paths, SUBDIR, URLs) are sequences   *)
(* of one-character strings, so that lstrip/rstrip/startswith, string      *)
(* concatenation and the lexicographic order are computed, not assumed.    *)
(***************************************************************************)
EXTENDS Integers, Sequences, FiniteSets, TLC

\* ------------------------------------------------------------------ bounds

\* Longest tree (number of entries) the provider returns.
MaxTree == 3

\* Number of build_raw_url calls recorded in the URL-builder specification.
MaxCalls == 2

\* ----------------------------------------------------------------- strings

\* The characters that occur in paths, in code-point order ("." 46, "/" 47,
\* then the lower-case letters): Python compares str by code point.
Alphabet == <<".", "/", "a", "b", "c", "d", "m", "o", "s", "t", "x">>

Ord(c) == CHOOSE i \in 1..Len(Alphabet) : Alphabet[i] = c

\* Python's s < t on str.
RECURSIVE StrLess(_, _)
StrLess(s, t) ==
    IF t = <<>> THEN FALSE
    ELSE IF s = <<>> THEN TRUE
    ELSE IF Head(s) = Head(t) THEN StrLess(Tail(s), Tail(t))
    ELSE Ord(Head(s)) < Ord(Head(t))

\* str.lstrip("/")
RECURSIVE LStripSlash(_)
LStripSlash(s) ==
    IF s # <<>> /\ Head(s) = "/" THEN LStripSlash(Tail(s)) ELSE s

\* str.rstrip("/")
RECURSIVE RStripSlash(_)
RStripSlash(s) ==
    IF s # <<>> /\ s[Len(s)] = "/" THEN RStripSlash(SubSeq(s, 1, Len(s) - 1)) ELSE s

\* str.startswith(prefix)
StartsWith(s, prefix) ==
    /\ Len(prefix) <= Len(s)
    /\ SubSeq(s, 1, Len(prefix)) = prefix

\* ------------------------------------------------------------- URL builder

RawHost ==
    <<"h","t","t","p","s",":","/","/","r","a","w",".","g","i","t","h","u","b",
      "u","s","e","r","c","o","n","t","e","n","t",".","c","o","m","/">>

RefsHeads == <<"r","e","f","s","/","h","e","a","d","s","/">>

build_raw_url_NoStrip(owner, repo, branch, path, style) ==
    IF style = "refs"
    THEN RawHost \o owner \o <<"/">> \o repo \o <<"/">> \o RefsHeads \o branch \o <<"/">> \o path
    ELSE RawHost \o owner \o <<"/">> \o repo \o <<"/">> \o branch \o <<"/">> \o path

build_raw_url(owner, repo, branch, path, style) ==
    LET p == LStripSlash(path) IN
    IF style = "refs"
    THEN RawHost \o owner \o <<"/">> \o repo \o <<"/">> \o RefsHeads \o branch \o <<"/">> \o p
    ELSE RawHost \o owner \o <<"/">> \o repo \o <<"/">> \o branch \o <<"/">> \o p

\* ------------------------------------------------------------ filter, sort

\* The loop body's two `continue` tests (main, lines 159-165).
KeepNode_NoRStrip(node, subdir) ==
    /\ node.type = "blob"
    /\ \/ subdir = <<>>
       \/ node.path = subdir
       \/ StartsWith(node.path, subdir \o <<"/">>)

KeepNode(node, subdir) ==
    /\ node.type = "blob"
    /\ \/ subdir = <<>>
       \/ LET base == RStripSlash(subdir) IN
            \/ node.path = base
            \/ StartsWith(node.path, base \o <<"/">>)

\* One element of `rows` (main, lines 166-172).
MakeRow(node, owner, repo, branch, style) ==
    [file_path  |-> node.path,
     raw_url    |-> build_raw_url(owner, repo, branch, node.path, style),
     size_bytes |-> node.size,
     sha        |-> node.sha]

\* The for loop of main (lines 157-172): rows in tree order.
RECURSIVE CollectRows(_, _, _, _, _, _)
CollectRows(tree, subdir, owner, repo, branch, style) ==
    IF tree = <<>> THEN <<>>
    ELSE LET rest == CollectRows(Tail(tree), subdir, owner, repo, branch, style) IN
         IF KeepNode(Head(tree), subdir)
         THEN <<MakeRow(Head(tree), owner, repo, branch, style)>> \o rest
         ELSE rest

\* x may stand at position k of the sorted sequence s (k = 0: in front).
FitsAt(x, s, k) ==
    /\ \A i \in 1..k : ~StrLess(x.file_path, s[i].file_path)
    /\ \A i \in (k + 1)..Len(s) : ~StrLess(s[i].file_path, x.file_path)

InsertAt(x, s, k) == SubSeq(s, 1, k) \o <<x>> \o SubSeq(s, k + 1, Len(s))

SortValues_Unsorted(rows) == {rows}

\* DataFrame.sort_values("file_path"): every arrangement of the rows that is
\* ascending by file_path. The default sort kind is not stable, so rows with
\* equal keys may come out in either order.
RECURSIVE SortValues(_)
SortValues(rows) ==
    IF rows = <<>> THEN {<<>>}
    ELSE UNION { { InsertAt(Head(rows), s, k) : k \in {j \in 0..Len(s) : FitsAt(Head(rows), s, j)} }
                 : s \in SortValues(Tail(rows)) }


\* ------------------------------------------------------------------- state

VARIABLES
    pc,                \* where main() stands; "done" once the process has exited
    exitStatus,        \* the process's exit status (read when pc = "done")
    OWNER, REPO, BRANCH, SUBDIR, RAW_STYLE, SHARE_WITH_EMAIL,   \* lines 30-38
    credOk,            \* GOOGLE_APPLICATION_CREDENTIALS is set and the file exists
    tree,              \* fetch_git_tree's result
    rows,              \* main's list `rows`
    df,                \* main's sorted DataFrame, as the sequence of its rows
    ssExists,          \* remote: a spreadsheet named SPREADSHEET_NAME exists
    ssShared,          \* remote: the emails the spreadsheet is shared with
    wsExists,          \* remote: the spreadsheet has a worksheet WORKSHEET_NAME
    cells,             \* remote: the worksheet's rows of cell values
    fmt,               \* remote: the worksheet's formatting
    fmtIdx,            \* the next formatting call of write_dataframe_with_hyperlinks
    prior,             \* the worksheet's rows as the run found them
    fetchCount,        \* tree-fetch requests issued
    ops,               \* the spreadsheet-service calls made, in order (the worksheet
                       \* lookup with its answer)
    raised,            \* the calls that raised an exception
    warnings,          \* the warnings printed by the two except blocks
    built              \* results of build_raw_url calls (URL-builder specification)

vars == <<pc, exitStatus, OWNER, REPO, BRANCH, SUBDIR, RAW_STYLE, SHARE_WITH_EMAIL,
          credOk, tree, rows, df, ssExists, ssShared, wsExists, cells, fmt, fmtIdx,
          prior, fetchCount, ops, raised, warnings, built>>

config == <<OWNER, REPO, BRANCH, SUBDIR, RAW_STYLE, SHARE_WITH_EMAIL, credOk>>
remote == <<ssExists, ssShared, wsExists, cells, fmt>>

\* os.getenv("SHARE_WITH_EMAIL") when the variable is unset.
None == "<None>"

\* Python truthiness of SHARE_WITH_EMAIL (share_if_needed, line 107).
Falsy(email) == email = None \/ email = ""

\* ------------------------------------------------------------ input values

Blob(path, size, sha) == [type |-> "blob", path |-> path, size |-> size, sha |-> sha]
TreeNode(path) == [type |-> "tree", path |-> path, size |-> <<>>, sha |-> <<"t">>]

\* The tree of the example scenario.
RunNodes ==
    { Blob(<<"a",".","t","x","t">>, <<"1","0">>, <<"a","a","a">>),
      Blob(<<"b","/","c",".","t","x","t">>, <<"2","0">>, <<"b","b","b">>),
      TreeNode(<<"b">>) }

RunSubdirs == { <<>>, <<"b">>, <<"x">> }

\* Paths for the filter: "d" itself, under it, beside it with the same first
\* letter, elsewhere, and the paths of the "docs" example.
FilterPaths ==
    { <<"d">>, <<"d","/","x">>, <<"d","x","/","a">>, <<"a",".","b">>, <<"a","/","b">>,
      <<"d","o","c","s">>, <<"d","o","c","s","/","a",".","m","d">>,
      <<"d","o","c","s","x","/","a",".","m","d">> }

\* One blob per path, a second entry for the path "d" (a tree the provider would
\* not send, which the code does not reject), and two directories.
FilterNodes ==
    { Blob(p, <<"1">>, <<"s">>) : p \in FilterPaths }
      \cup { Blob(<<"d">>, <<"2">>, <<"u">>) }
      \cup { TreeNode(<<"d">>), TreeNode(<<"d","o","c","s">>) }

FilterSubdirs ==
    { <<>>, <<"d">>, <<"d","/">>, <<"d","/","/">>, <<"/">>, <<"d","o","c","s">>, <<"a">> }

Trees(nodes) == UNION { [1..n -> nodes] : n \in 0..MaxTree }

\* What the provider may answer to the one GET of fetch_git_tree.
Responses(nodes) ==
    { [conn_ok |-> FALSE, status_code |-> 0, has_tree |-> FALSE, tree |-> <<>>],
      [conn_ok |-> TRUE, status_code |-> 404, has_tree |-> FALSE, tree |-> <<>>],
      [conn_ok |-> TRUE, status_code |-> 200, has_tree |-> FALSE, tree |-> <<>>] }
    \cup { [conn_ok |-> TRUE, status_code |-> 200, has_tree |-> TRUE, tree |-> t] : t \in Trees(nodes) }

\* Rows a worksheet may hold before the run: longer than anything the run writes.
Junk == <<"o","l","d">>
JunkRow == <<Junk, Junk, Junk, Junk, Junk, Junk>>
PriorCells == { <<>>, <<JunkRow>>, [i \in 1..(MaxTree + 2) |-> JunkRow] }

NoFormat == [frozen_rows |-> 0, widths |-> {}, bold |-> {}]

\* -------------------------------------------------------------------- Init

InitCommon ==
    /\ exitStatus = 0
    /\ rows = <<>>
    /\ df = <<>>
    /\ ssShared = {}
    /\ fmt = NoFormat
    /\ fmtIdx = 1
    /\ prior = cells
    /\ ops = <<>>
    /\ raised = {}
    /\ warnings = <<>>
    /\ built = {}

Init ==
    /\ pc = "fetch"
    /\ OWNER = <<"o">>
    /\ REPO = <<"r">>
    /\ BRANCH = <<"m","a","i","n">>
    /\ SUBDIR \in RunSubdirs
    /\ RAW_STYLE \in {"refs", "plain"}
    /\ SHARE_WITH_EMAIL \in {None, "", "dev@example.com"}
    /\ credOk \in BOOLEAN
    /\ tree = <<>>
    /\ fetchCount = 0
    /\ ssExists \in BOOLEAN
    /\ wsExists \in IF ssExists THEN BOOLEAN ELSE {FALSE}
    /\ cells \in IF wsExists THEN PriorCells ELSE {<<>>}
    /\ InitCommon

\* ----------------------------------------------------------------- helpers

\* An exception nothing catches leaves main(): the interpreter prints the
\* traceback and exits with status 1.
Uncaught(call) ==
    /\ pc' = "done"
    /\ exitStatus' = 1
    /\ raised' = raised \cup {call}

\* ws.update(range, vals): the rows from `start` on are overwritten by
\* `vals`; every other row keeps what it held.
UpdateRows(sheet, start, vals) ==
    LET last == start + Len(vals) - 1
        n    == IF Len(sheet) > last THEN Len(sheet) ELSE last
    IN [i \in 1..n |->
          IF i >= start /\ i <= last THEN vals[i - start + 1]
          ELSE IF i <= Len(sheet) THEN sheet[i]
          ELSE <<>>]

\* write_dataframe_with_hyperlinks, line 119.
headers ==
    << <<"f","i","l","e","_","p","a","t","h">>,
       <<"r","a","w","_","u","r","l">>,
       <<"r","a","w","_","l","i","n","k">>,
       <<"s","i","z","e","_","b","y","t","e","s">>,
       <<"s","h","a">> >>

\* line 125: f'=HYPERLINK("{row["raw_url"]}", "Open RAW")'
link_formula(url) ==
    <<"=","H","Y","P","E","R","L","I","N","K","(","\"">> \o url
      \o <<"\"",","," ","\"","O","p","e","n"," ","R","A","W","\"",")">>

\* lines 122-132: the list `values`, one entry per row of df, in df's order.
values(d) ==
    [i \in 1..Len(d) |->
        <<d[i].file_path, d[i].raw_url, link_formula(d[i].raw_url), d[i].size_bytes, d[i].sha>>]

\* lines 139-149: the formatting calls of the try block, in order.
FormatCalls ==
    << [call |-> "set_frozen",         arg |-> "1",     px |-> 0],
       [call |-> "set_column_width",   arg |-> "A",     px |-> 400],
       [call |-> "set_column_width",   arg |-> "B",     px |-> 450],
       [call |-> "set_column_width",   arg |-> "C",     px |-> 120],
       [call |-> "set_column_width",   arg |-> "D",     px |-> 120],
       [call |-> "set_column_width",   arg |-> "E",     px |-> 260],
       [call |-> "format_cell_ranges", arg |-> "A1:E1", px |-> 0] >>

FormatName(i) == FormatCalls[i].call \o ":" \o FormatCalls[i].arg

FormatNames == { FormatName(i) : i \in 1..Len(FormatCalls) }

\* The effect of one formatting call: formatting only, never a cell value.
ApplyFormat(f, c) ==
    IF c.call = "set_frozen" THEN [f EXCEPT !.frozen_rows = 1]
    ELSE IF c.call = "set_column_width" THEN [f EXCEPT !.widths = @ \cup {<<c.arg, c.px>>}]
    ELSE [f EXCEPT !.bold = @ \cup {c.arg}]

\* main, lines 181-185, and the return at the end of main: the order of the calls.
MainOrder_ShareLast == <<"client", "open", "worksheet", "write", "share", "finish">>

MainOrder == <<"client", "open", "share", "worksheet", "write", "finish">>

\* The statement of main that follows `step`.
After(step) ==
    LET i == CHOOSE k \in 1..Len(MainOrder) : MainOrder[k] = step IN MainOrder[i + 1]

\* write_dataframe_with_hyperlinks starts with the header write.
Enter(step) == IF step = "write" THEN "header" ELSE step

\* ----------------------------------------------------------------- actions

\* fetch_git_tree (lines 66-76), called at line 155: one GET, no retry.
fetch_git_tree_Retry ==
    /\ pc = "fetch"
    /\ fetchCount' = fetchCount + 1
    /\ \E r \in Responses(RunNodes) :
         \/ /\ ~r.conn_ok
            /\ Uncaught("requests.get")
            /\ UNCHANGED tree
         \/ /\ r.conn_ok /\ r.status_code # 200
            /\ fetchCount < 1
            /\ UNCHANGED <<pc, exitStatus, raised, tree>>
         \/ /\ r.conn_ok /\ r.status_code # 200
            /\ fetchCount >= 1
            /\ Uncaught("fetch_git_tree")
            /\ UNCHANGED tree
         \/ /\ r.conn_ok /\ r.status_code = 200 /\ ~r.has_tree
            /\ Uncaught("fetch_git_tree")
            /\ UNCHANGED tree
         \/ /\ r.conn_ok /\ r.status_code = 200 /\ r.has_tree
            /\ tree' = r.tree
            /\ pc' = "build"
            /\ UNCHANGED <<exitStatus, raised>>
    /\ UNCHANGED <<config, rows, df, remote, fmtIdx, prior, ops, warnings, built>>

fetch_git_tree ==
    /\ pc = "fetch"
    /\ fetchCount' = fetchCount + 1
    /\ \E r \in Responses(RunNodes) :
         \/ /\ ~r.conn_ok
            /\ Uncaught("requests.get")
            /\ UNCHANGED tree
         \/ /\ r.conn_ok /\ r.status_code # 200
            /\ Uncaught("fetch_git_tree")
            /\ UNCHANGED tree
         \/ /\ r.conn_ok /\ r.status_code = 200 /\ ~r.has_tree
            /\ Uncaught("fetch_git_tree")
            /\ UNCHANGED tree
         \/ /\ r.conn_ok /\ r.status_code = 200 /\ r.has_tree
            /\ tree' = r.tree
            /\ pc' = "build"
            /\ UNCHANGED <<exitStatus, raised>>
    /\ UNCHANGED <<config, rows, df, remote, fmtIdx, prior, ops, warnings, built>>

\* main, lines 157-178: the filter loop, the empty check and the sort.
BuildRows_NoEmptyCheck ==
    /\ pc = "build"
    /\ rows' = CollectRows(tree, SUBDIR, OWNER, REPO, BRANCH, RAW_STYLE)
    /\ \E d \in SortValues(rows') : df' = d
    /\ pc' = Enter(MainOrder[1])
    /\ UNCHANGED <<exitStatus, config, tree, remote, fmtIdx, prior, fetchCount, ops,
                   raised, warnings, built>>

BuildRows ==
    /\ pc = "build"
    /\ rows' = CollectRows(tree, SUBDIR, OWNER, REPO, BRANCH, RAW_STYLE)
    /\ \/ /\ rows' = <<>>                     \* sys.exit(1)
          /\ pc' = "done"
          /\ exitStatus' = 1
          /\ UNCHANGED df
       \/ /\ rows' # <<>>
          /\ \E d \in SortValues(rows') : df' = d
          /\ pc' = Enter(MainOrder[1])
          /\ UNCHANGED exitStatus
    /\ UNCHANGED <<config, tree, remote, fmtIdx, prior, fetchCount, ops, raised,
                   warnings, built>>

\* get_gspread_client (lines 81-86), called at line 181.
get_gspread_client ==
    /\ pc = "client"
    /\ \/ /\ ~credOk
          /\ Uncaught("get_gspread_client")
          /\ UNCHANGED ops
       \/ /\ credOk
          /\ ops' = Append(ops, "authorize")
          /\ \/ /\ pc' = Enter(After("client"))
                /\ UNCHANGED <<exitStatus, raised>>
             \/ Uncaught("authorize")
    /\ UNCHANGED <<config, tree, rows, df, remote, fmtIdx, prior, fetchCount, warnings, built>>

\* open_or_create_spreadsheet (lines 88-95), called at line 182.
open_or_create_spreadsheet ==
    /\ pc = "open"
    /\ \/ /\ ssExists
          /\ ops' = Append(ops, "open")
          /\ pc' = Enter(After("open"))
          /\ UNCHANGED <<exitStatus, raised, remote>>
       \/ /\ ops' = Append(ops, "open")       \* an error other than SpreadsheetNotFound
          /\ Uncaught("open")
          /\ UNCHANGED remote
       \/ /\ ~ssExists
          /\ ops' = ops \o <<"open", "create">>
          /\ \/ /\ ssExists' = TRUE
                \* a new spreadsheet has one empty sheet, whose title may be WORKSHEET_NAME
                /\ wsExists' \in BOOLEAN
                /\ cells' = <<>>
                /\ pc' = Enter(After("open"))
                /\ UNCHANGED <<exitStatus, raised, ssShared, fmt>>
             \/ /\ Uncaught("create")
                /\ UNCHANGED remote
    /\ UNCHANGED <<config, tree, rows, df, fmtIdx, prior, fetchCount, warnings, built>>

\* share_if_needed (lines 106-113), called at line 183.
share_if_needed_NoCatch ==
    /\ pc = "share"
    /\ \/ /\ Falsy(SHARE_WITH_EMAIL)
          /\ pc' = Enter(After("share"))
          /\ UNCHANGED <<exitStatus, ssShared, ops, raised, warnings>>
       \/ /\ ~Falsy(SHARE_WITH_EMAIL)
          /\ ops' = Append(ops, "share")
          /\ \/ /\ ssShared' = ssShared \cup {SHARE_WITH_EMAIL}
                /\ pc' = Enter(After("share"))
                /\ UNCHANGED <<exitStatus, raised, warnings>>
             \/ /\ Uncaught("share")
                /\ UNCHANGED <<ssShared, warnings>>
    /\ UNCHANGED <<config, tree, rows, df, ssExists, wsExists, cells, fmt, fmtIdx, prior,
                   fetchCount, built>>

share_if_needed ==
    /\ pc = "share"
    /\ \/ /\ Falsy(SHARE_WITH_EMAIL)
          /\ UNCHANGED <<ssShared, ops, raised, warnings>>
       \/ /\ ~Falsy(SHARE_WITH_EMAIL)
          /\ ops' = Append(ops, "share")
          /\ \/ /\ ssShared' = ssShared \cup {SHARE_WITH_EMAIL}
                /\ UNCHANGED <<raised, warnings>>
             \/ /\ raised' = raised \cup {"share"}      \* except Exception: print
                /\ warnings' = Append(warnings, "share")
                /\ UNCHANGED ssShared
    /\ pc' = Enter(After("share"))
    /\ UNCHANGED <<exitStatus, config, tree, rows, df, ssExists, wsExists, cells, fmt,
                   fmtIdx, prior, fetchCount, built>>

\* ensure_worksheet (lines 97-104), called at line 184.
ensure_worksheet_NoClear ==
    /\ pc = "worksheet"
    /\ \/ /\ wsExists
          /\ ops' = ops \o <<"worksheet:found">>
          /\ pc' = Enter(After("worksheet"))
          /\ UNCHANGED <<exitStatus, raised, remote>>
       \/ /\ ~wsExists
          /\ ops' = ops \o <<"worksheet:missing", "add_worksheet">>
          /\ wsExists' = TRUE
          /\ cells' = <<>>
          /\ fmt' = NoFormat
          /\ pc' = Enter(After("worksheet"))
          /\ UNCHANGED <<exitStatus, raised, ssExists, ssShared>>
    /\ UNCHANGED <<config, tree, rows, df, fmtIdx, prior, fetchCount, warnings, built>>

ensure_worksheet ==
    /\ pc = "worksheet"
    /\ \/ /\ ops' = Append(ops, "worksheet:error")   \* an error other than WorksheetNotFound
          /\ Uncaught("worksheet")
          /\ UNCHANGED remote
       \/ /\ wsExists
          /\ ops' = ops \o <<"worksheet:found", "clear">>
          /\ \/ /\ cells' = <<>>
                /\ pc' = Enter(After("worksheet"))
                /\ UNCHANGED <<exitStatus, raised, ssExists, ssShared, wsExists, fmt>>
             \/ /\ Uncaught("clear")
                /\ UNCHANGED remote
       \/ /\ ~wsExists
          /\ ops' = ops \o <<"worksheet:missing", "add_worksheet">>
          /\ \/ /\ wsExists' = TRUE
                /\ cells' = <<>>
                /\ fmt' = NoFormat
                /\ pc' = Enter(After("worksheet"))
                /\ UNCHANGED <<exitStatus, raised, ssExists, ssShared>>
             \/ /\ Uncaught("add_worksheet")
                /\ UNCHANGED remote
    /\ UNCHANGED <<config, tree, rows, df, fmtIdx, prior, fetchCount, warnings, built>>

\* write_dataframe_with_hyperlinks, lines 119-120: ws.update([headers]).
WriteHeader_Swallow ==
    /\ pc = "header"
    /\ ops' = Append(ops, "update_header")
    /\ \/ /\ cells' = UpdateRows(cells, 1, <<headers>>)
          /\ UNCHANGED raised
       \/ /\ raised' = raised \cup {"update_header"}
          /\ UNCHANGED cells
    /\ pc' = "data"
    /\ UNCHANGED <<exitStatus, config, tree, rows, df, ssExists, ssShared, wsExists, fmt,
                   fmtIdx, prior, fetchCount, warnings, built>>

WriteHeader ==
    /\ pc = "header"
    /\ ops' = Append(ops, "update_header")
    /\ \/ /\ cells' = UpdateRows(cells, 1, <<headers>>)
          /\ pc' = "data"
          /\ UNCHANGED <<exitStatus, raised>>
       \/ /\ Uncaught("update_header")
          /\ UNCHANGED cells
    /\ UNCHANGED <<config, tree, rows, df, ssExists, ssShared, wsExists, fmt, fmtIdx,
                   prior, fetchCount, warnings, built>>

\* write_dataframe_with_hyperlinks, lines 122-135: the data rows, from A2 on.
WriteData ==
    /\ pc = "data"
    /\ ops' = Append(ops, "update_data")
    /\ \/ /\ cells' = UpdateRows(cells, 2, values(df))
          /\ pc' = "format"
          /\ UNCHANGED <<exitStatus, raised>>
       \/ /\ Uncaught("update_data")
          /\ UNCHANGED cells
    /\ UNCHANGED <<config, tree, rows, df, ssExists, ssShared, wsExists, fmt, fmtIdx,
                   prior, fetchCount, warnings, built>>

\* write_dataframe_with_hyperlinks, lines 138-151: one call of the try block.
FormatStep_NoCatch ==
    /\ pc = "format"
    /\ ops' = Append(ops, FormatName(fmtIdx))
    /\ \/ /\ fmt' = ApplyFormat(fmt, FormatCalls[fmtIdx])
          /\ fmtIdx' = fmtIdx + 1
          /\ pc' = IF fmtIdx = Len(FormatCalls) THEN Enter(After("write")) ELSE "format"
          /\ UNCHANGED <<exitStatus, raised>>
       \/ /\ Uncaught(FormatName(fmtIdx))
          /\ UNCHANGED <<fmt, fmtIdx>>
    /\ UNCHANGED <<config, tree, rows, df, ssExists, ssShared, wsExists, cells, prior,
                   fetchCount, warnings, built>>

FormatStep ==
    /\ pc = "format"
    /\ ops' = Append(ops, FormatName(fmtIdx))
    /\ \/ /\ fmt' = ApplyFormat(fmt, FormatCalls[fmtIdx])
          /\ fmtIdx' = fmtIdx + 1
          /\ pc' = IF fmtIdx = Len(FormatCalls) THEN Enter(After("write")) ELSE "format"
          /\ UNCHANGED <<raised, warnings>>
       \/ /\ raised' = raised \cup {FormatName(fmtIdx)}    \* except Exception: print
          /\ warnings' = Append(warnings, "format")
          /\ pc' = Enter(After("write"))
          /\ UNCHANGED <<fmt, fmtIdx>>
    /\ UNCHANGED <<exitStatus, config, tree, rows, df, ssExists, ssShared, wsExists, cells,
                   prior, fetchCount, built>>

\* main, lines 187-195: the closing prints; main returns and the process exits 0.
Finish ==
    /\ pc = "finish"
    /\ pc' = "done"
    /\ exitStatus' = 0
    /\ UNCHANGED <<config, tree, rows, df, remote, fmtIdx, prior, fetchCount, ops, raised,
                   warnings, built>>

\* write_dataframe_with_hyperlinks (lines 115-151), called at line 185.
write_dataframe_with_hyperlinks ==
    \/ WriteHeader
    \/ WriteData
    \/ FormatStep

\* main (lines 153-195), one call at a time.
Next ==
    \/ fetch_git_tree
    \/ BuildRows
    \/ get_gspread_client
    \/ open_or_create_spreadsheet
    \/ share_if_needed
    \/ ensure_worksheet
    \/ write_dataframe_with_hyperlinks
    \/ Finish

Spec == Init /\ [][Next]_vars

\* ------------------------------------------- Filter & Sort alone (pure step)

\* The state after a successful fetch, for every tree over FilterNodes and every
\* SUBDIR of FilterSubdirs; BuildRows is the only step taken.
InitFilter ==
    /\ pc = "build"
    /\ OWNER = <<"o">>
    /\ REPO = <<"r">>
    /\ BRANCH = <<"m","a","i","n">>
    /\ SUBDIR \in FilterSubdirs
    /\ RAW_STYLE = "refs"
    /\ SHARE_WITH_EMAIL = None
    /\ credOk = TRUE
    /\ tree \in Trees(FilterNodes)
    /\ fetchCount = 1
    /\ ssExists = FALSE
    /\ wsExists = FALSE
    /\ cells = <<>>
    /\ InitCommon

SpecFilter == InitFilter /\ [][BuildRows]_vars

\* --------------------------------------------- URL builder alone (pure step)

UrlOwners == { <<"o">>, <<"a","b">> }
UrlBranches == { <<"m">>, <<"d","/","x">> }
UrlPaths ==
    { <<"a">>, <<"/","a">>, <<"/","/","a","/","b">>, <<"a","/","/","b">>, <<"/">>,
      RefsHeads \o <<"a">> }

\* One call build_raw_url(OWNER, REPO, BRANCH, path, style), its result recorded.
BuildRawUrlCall ==
    /\ pc = "url"
    /\ Cardinality(built) < MaxCalls
    /\ \E path \in UrlPaths, style \in {"refs", "plain"} :
         built' = built \cup { [path |-> path, style |-> style,
                                url |-> build_raw_url(OWNER, REPO, BRANCH, path, style)] }
    /\ UNCHANGED <<pc, exitStatus, config, tree, rows, df, remote, fmtIdx, prior, fetchCount,
                   ops, raised, warnings>>

InitUrl ==
    /\ pc = "url"
    /\ OWNER \in UrlOwners
    /\ REPO = <<"r">>
    /\ BRANCH \in UrlBranches
    /\ SUBDIR = <<>>
    /\ RAW_STYLE = "refs"
    /\ SHARE_WITH_EMAIL = None
    /\ credOk = TRUE
    /\ tree = <<>>
    /\ fetchCount = 0
    /\ ssExists = FALSE
    /\ wsExists = FALSE
    /\ cells = <<>>
    /\ InitCommon

SpecUrl == InitUrl /\ [][BuildRawUrlCall]_vars

\* ------------------------------------------------------------------ claims

\* Positions of a call in the log.
At(call) == { i \in 1..Len(ops) : ops[i] = call }
Called(call) == At(call) # {}

\* Every `a` in the log stands before every `b`.
Before(a, b) == \A i \in At(a), j \in At(b) : i < j

\* What a full overwrite leaves: the header, then one row per row of df.
Published == <<headers>> \o values(df)

\* s sorts before t: at the first position where they differ s has the smaller
\* character, or s is a proper prefix of t.
PathBefore(s, t) ==
    \E k \in 0..Len(s) :
        /\ k <= Len(t)
        /\ \A i \in 1..k : s[i] = t[i]
        /\ \/ k = Len(s) /\ k < Len(t)
           \/ k < Len(s) /\ k < Len(t) /\ Ord(s[k + 1]) < Ord(t[k + 1])

FetchFailed == raised \cap {"requests.get", "fetch_git_tree"} # {}

\* C1: once the filter has left no row, the process has exited with a non-zero
\* status and no spreadsheet call of any kind was made: nothing was authorized,
\* opened, created, shared, cleared or written, and the remote state is untouched.
C1_EmptyResultAborts ==
    (pc \notin {"fetch", "build"} /\ rows = <<>>) =>
        /\ pc = "done"
        /\ exitStatus # 0
        /\ ops = <<>>
        /\ cells = prior
        /\ ssShared = {}
        /\ fmt = NoFormat

\* The tree holds blobs, the filter matched none of them, the run is over.
C1_Witness ==
    /\ pc = "done"
    /\ raised = {}
    /\ rows = <<>>
    /\ \E i \in 1..Len(tree) : tree[i].type = "blob"
    /\ SUBDIR # <<>>

\* C2: a run issues exactly one tree-fetch request; when the request fails (bad
\* status, no 'tree' field, network error) the run is over with a non-zero status,
\* the request was not repeated and no spreadsheet call was made.
C2_OneFetchNoRetry ==
    /\ fetchCount <= 1
    /\ pc # "fetch" => fetchCount = 1
    /\ FetchFailed =>
          /\ pc = "done"
          /\ exitStatus # 0
          /\ fetchCount = 1
          /\ ops = <<>>
          /\ cells = prior

C2_Witness ==
    /\ pc = "done"
    /\ "fetch_git_tree" \in raised
    /\ fetchCount = 1

\* C3: from the first formatting call to the end of the run the worksheet's rows
\* are never changed, a failing formatting call does not end the run, and the run
\* ends with exit status 0, whichever formatting call fails.
C3_FormatFailureKeepsData ==
    [][ (pc = "format" \/ pc = "finish") =>
          ( /\ cells' = cells
            /\ pc' \in {"format", "finish", "done"}
            /\ (pc' = "done" => exitStatus' = 0) ) ]_vars

\* A column-width call failed after both writes; the run ended with status 0 and
\* the header and the data rows are in the worksheet.
C3_Witness ==
    /\ pc = "done"
    /\ exitStatus = 0
    /\ FormatName(3) \in raised
    /\ Len(df) >= 2
    /\ cells = Published

\* C4 (as claimed): the share is attempted only after the Publisher has finished,
\* that is after the worksheet was cleared or created and the header and the data
\* rows were written.
C4_ShareAfterPublisher ==
    Called("share") =>
        /\ Called("update_header") /\ Before("update_header", "share")
        /\ Called("update_data") /\ Before("update_data", "share")

\* C4 (amended): the tree is fetched and filtered before any spreadsheet call; the
\* share is attempted right after the spreadsheet was opened or created, and
\* before the worksheet is looked up, cleared or created and before the header
\* and the data rows are written.
C4_ShareBeforeWorksheet ==
    /\ ops # <<>> => (fetchCount = 1 /\ rows # <<>>)
    /\ \A i \in At("share") :
          /\ \E j \in 1..(i - 1) : ops[j] = "open"
          /\ \A j \in 1..(i - 1) : ops[j] \in {"authorize", "open", "create"}
    /\ \A c \in {"worksheet:found", "worksheet:missing", "worksheet:error", "clear",
                 "add_worksheet", "update_header", "update_data"} :
          /\ Before("share", c)
          /\ Called(c) /\ ~Falsy(SHARE_WITH_EMAIL) => Called("share")

C4_Witness ==
    /\ pc = "done"
    /\ exitStatus = 0
    /\ Called("share")
    /\ Called("clear")
    /\ Called("update_data")

\* C5: the share call is made only when SHARE_WITH_EMAIL is set and not empty; a
\* share call that raises is caught as a warning: a run in which nothing but the
\* share (and formatting) raised ends with status 0 and the header and every data
\* row written.
C5_ShareFailureNonFatal ==
    /\ Called("share") => ~Falsy(SHARE_WITH_EMAIL)
    /\ "share" \in raised => Called("share")
    /\ (pc = "done" /\ "share" \in raised /\ raised \subseteq ({"share"} \cup FormatNames)) =>
          /\ exitStatus = 0
          /\ cells = Published
          /\ Len(cells) = Len(rows) + 1
          /\ warnings # <<>>

C5_Witness ==
    /\ pc = "done"
    /\ raised = {"share"}
    /\ exitStatus = 0
    /\ Len(cells) >= 2

Ascending(d) ==
    \A i, j \in 1..Len(d) : i < j => ~PathBefore(d[j].file_path, d[i].file_path)

StrictlyAscending(d) ==
    \A i, j \in 1..Len(d) : i < j => PathBefore(d[i].file_path, d[j].file_path)

DistinctPaths(d) ==
    \A i, j \in 1..Len(d) : i # j => d[i].file_path # d[j].file_path

\* d holds the rows of r, each as often as r does.
SameRows(d, r) ==
    /\ Len(d) = Len(r)
    /\ \A x \in {r[i] : i \in 1..Len(r)} :
          Cardinality({i \in 1..Len(d) : d[i] = x}) = Cardinality({i \in 1..Len(r) : r[i] = x})

\* C6 (as claimed): for any input entry list the rows handed to the Publisher are
\* in strict ascending order by file_path, with no duplicate file_path.
C6_StrictlySortedAnyInput ==
    pc # "build" => (StrictlyAscending(df) /\ DistinctPaths(df))

\* C6 (amended): for any input entry list the rows handed to the Publisher are
\* the retained rows in ascending order by file_path; the order is strict, with no
\* duplicate file_path, whenever the retained entries have pairwise distinct
\* paths (the code removes no duplicate).
C6_SortedAndStrictIfDistinct ==
    (pc # "build" /\ rows # <<>>) =>
        /\ SameRows(df, rows)
        /\ Ascending(df)
        /\ DistinctPaths(rows) => StrictlyAscending(df)

\* Three retained entries given out of order come out in order.
C6_Witness ==
    /\ pc = "client"
    /\ Len(df) = 3
    /\ df # rows
    /\ StrictlyAscending(df)

\* Spec section 4.3, read literally: SUBDIR itself is compared.
RetainedAsClaimed(node, filter) ==
    /\ node.type = "blob"
    /\ \/ filter = <<>>
       \/ node.path = filter
       \/ /\ Len(node.path) > Len(filter)
          /\ \A i \in 1..Len(filter) : node.path[i] = filter[i]
          /\ node.path[Len(filter) + 1] = "/"

\* base is filter without its trailing slashes.
IsBaseOf(base, filter) ==
    \E k \in 0..Len(filter) :
        /\ base = [i \in 1..k |-> filter[i]]
        /\ k > 0 => filter[k] # "/"
        /\ \A i \in (k + 1)..Len(filter) : filter[i] = "/"

RetainedAmended(node, filter) ==
    /\ node.type = "blob"
    /\ \/ filter = <<>>
       \/ \E k \in 0..Len(filter) :
            LET base == [i \in 1..k |-> filter[i]] IN
            /\ IsBaseOf(base, filter)
            /\ \/ node.path = base
               \/ /\ Len(node.path) > k
                  /\ \A i \in 1..k : node.path[i] = base[i]
                  /\ node.path[k + 1] = "/"

\* rows holds exactly the entries of tree that Keep(_, SUBDIR) accepts, in tree
\* order, each with its own path, size and sha.
RowsAre(Keep(_, _)) ==
    LET kept == { i \in 1..Len(tree) : Keep(tree[i], SUBDIR) }
        \* the tree index of the n-th kept entry
        Nth(n) == CHOOSE i \in kept : Cardinality({j \in kept : j <= i}) = n
    IN /\ Len(rows) = Cardinality(kept)
       /\ \A n \in 1..Len(rows) :
             /\ rows[n].file_path = tree[Nth(n)].path
             /\ rows[n].size_bytes = tree[Nth(n)].size
             /\ rows[n].sha = tree[Nth(n)].sha

\* C7 (as claimed): an entry is retained iff it is a blob and the filter is empty
\* or its path equals the filter or starts with filter + "/", for every filter,
\* those ending in "/" included.
C7_RetainedByFilterItself ==
    pc # "build" => RowsAre(RetainedAsClaimed)

\* C7 (amended): an entry is retained iff it is a blob and the filter is empty or
\* its path equals base or starts with base + "/", where base is the filter
\* without its trailing slashes (for the filter "/" base is the empty string).
\* For a filter that does not end in "/" this
\* is the claimed rule: with "docs", blobs "docs/a.md" and "docs" are retained,
\* "docsx/a.md" is not, and no non-blob entry is retained.
C7_RetainedByStrippedFilter ==
    pc # "build" => RowsAre(RetainedAmended)

\* The filter "d/": of the blobs "d", "d/x" and "dx/a", the first two are retained.
C7_Witness ==
    /\ pc = "client"
    /\ SUBDIR = <<"d","/">>
    /\ { tree[i].path : i \in 1..Len(tree) } = { <<"d">>, <<"d","/","x">>, <<"d","x","/","a">> }
    /\ \A i \in 1..Len(tree) : tree[i].type = "blob"
    /\ { rows[i].file_path : i \in 1..Len(rows) } = { <<"d">>, <<"d","/","x">> }

\* path without its leading slashes: the suffix that starts at the first
\* character that is not "/".
IsStripped(p, path) ==
    \E k \in 0..Len(path) :
        /\ \A i \in 1..k : path[i] = "/"
        /\ k < Len(path) => path[k + 1] # "/"
        /\ p = [i \in 1..(Len(path) - k) |-> path[k + i]]

\* s with the n characters after position k taken out.
Without(s, k, n) == [i \in 1..(Len(s) - n) |-> IF i <= k THEN s[i] ELSE s[i + n]]

\* C8: for the same (owner, repo, branch, path), the "refs" URL holds the segment
\* "refs/heads/" right after "<host>/<owner>/<repo>/" and immediately before the
\* branch, taking that segment out gives exactly the "plain" URL, and the plain URL
\* is host, owner, repo, branch and the path without its leading slashes, in that
\* order, joined by "/".
C8_RefsPlainDifferBySegment ==
    \A r, q \in built :
        (r.style = "refs" /\ q.style = "plain" /\ r.path = q.path) =>
            LET k == Len(RawHost) + Len(OWNER) + 1 + Len(REPO) + 1
                n == Len(RefsHeads)
            IN /\ Len(r.url) = Len(q.url) + n
               /\ \A i \in 1..n : r.url[k + i] = RefsHeads[i]
               /\ Without(r.url, k, n) = q.url
               /\ \A i \in 1..Len(BRANCH) : r.url[k + n + i] = BRANCH[i]
               /\ \E p \in {[i \in 1..m |-> q.path[Len(q.path) - m + i]] : m \in 0..Len(q.path)} :
                     /\ IsStripped(p, q.path)
                     /\ q.url = RawHost \o OWNER \o <<"/">> \o REPO \o <<"/">> \o BRANCH
                                  \o <<"/">> \o p

\* Both styles were built for the path "//a/b" under the branch "d/x".
C8_Witness ==
    /\ BRANCH = <<"d","/","x">>
    /\ \E r, q \in built :
          /\ r.style = "refs" /\ q.style = "plain"
          /\ r.path = <<"/","/","a","/","b">> /\ q.path = r.path
          /\ r.url # q.url

\* C9: in every successful run the worksheet was cleared (if the lookup found it)
\* or created (if the lookup did not) before the header was written, the header
\* was written before the data rows, and the worksheet ends up holding exactly the
\* header followed by one row per row of the sorted table, whatever it held before.
C9_FullOverwrite ==
    /\ \A i \in At("clear") : i > 1 /\ ops[i - 1] = "worksheet:found"
    /\ \A i \in At("add_worksheet") : i > 1 /\ ops[i - 1] = "worksheet:missing"
    /\ (pc = "done" /\ exitStatus = 0) =>
          /\ cells = Published
          /\ Len(cells) = Len(rows) + 1
          /\ Ascending(df) /\ SameRows(df, rows)
          /\ Called("worksheet:found") => Called("clear")
          /\ Called("worksheet:missing") => Called("add_worksheet")
          /\ Called("clear") # Called("add_worksheet")
          /\ Before("clear", "update_header")
          /\ Before("add_worksheet", "update_header")
          /\ Called("update_header") /\ Called("update_data")
          /\ Before("update_header", "update_data")

\* A worksheet holding more old rows than the run writes was cleared and rewritten.
C9_Witness ==
    /\ pc = "done"
    /\ exitStatus = 0
    /\ Len(prior) > Len(rows) + 1
    /\ Called("clear")
    /\ Len(cells) = 3

\* C10: when the header write or the data write raises, the run ends with a
\* failure status, the worksheet holds nothing (header write failed) or only the
\* header row (data write failed), never its previous rows, and a spreadsheet
\* created and a share granted earlier in the run are still there.
C10_NoRollback ==
    (pc = "done" /\ ("update_header" \in raised \/ "update_data" \in raised)) =>
        /\ exitStatus # 0
        /\ "update_header" \in raised => cells = <<>>
        /\ "update_data" \in raised => cells = <<headers>>
        /\ prior # <<>> => cells # prior
        /\ Called("create") => ssExists
        /\ (Called("share") /\ "share" \notin raised) => SHARE_WITH_EMAIL \in ssShared

\* The data write failed after an existing, non-empty worksheet was cleared and
\* the spreadsheet was shared.
C10_Witness ==
    /\ pc = "done"
    /\ "update_data" \in raised
    /\ Called("clear")
    /\ prior # <<>>
    /\ cells = <<headers>>
    /\ SHARE_WITH_EMAIL \in ssShared

====
